---- MODULE Spec2Model ----
(***************************************************************************)
(* Model of the tool-orchestration core of the RAG chatbot:                *)
(*   backend/ai_generator.py            AIGenerator                        *)
(*   ragchatbot/backend/search_tools.py ToolManager                        *)
(*                                                                         *)
(* One generate_response call is followed from its entry to its return.    *)
(* The language-model client and the tools are the environment: every      *)
(* model call either raises or returns a response (a stop reason and a     *)
(* non-empty list of content blocks), every tool run either raises or      *)
(* returns an output.  The model steps at exactly these external calls;    *)
(* everything the code does between two external calls is part of the      *)
(* step that follows the earlier call.                                     *)
(*                                                                         *)
(* Opaque data: the text of the response to the c-th model call is the     *)
(* number c, and the request identifier of the k-th block of that          *)
(* response is <<c, k>>, so that texts and identifiers of different        *)
(* responses can be told apart.  response.content[0].text is taken to be   *)
(* readable for every response (as for every response of the test suite).  *)
(***************************************************************************)
EXTENDS Integers, Sequences, FiniteSets, TLC

\* ------------------------------------------------------------------ bounds
\* largest round budget passed to generate_response
MaxRounds == 2
\* largest number of content blocks in one model response
MaxBlocks == 2

\* ------------------------------------------------------ environment values
\* stop reasons a response can carry; only "tool_use" is tested by the code
StopReasons == {"tool_use", "end_turn", "max_tokens"}

\* names the model can put in a tool_use block
RequestedNames == {"search_course_content", "nonexistent_tool"}

\* shapes of a content block: a text block or a tool_use block naming a tool
BlockShapes == {"text"} \cup RequestedNames

\* names in ToolManager.tools after the two tools have been registered
RegisteredTools == {"search_course_content", "get_course_outline"}

\* messages of the exceptions the environment raises
ApiErrorMsg == "API rate limit exceeded"
ToolErrorMsg == "Database connection failed"

\* the block-shape sequences of length 1..n a response can have: tool_use
\* blocks in any number and order, preceded or not by one text block
RECURSIVE ShapeSeqs(_)
ShapeSeqs(n) ==
  IF n = 0 THEN {}
  ELSE LET shorter == ShapeSeqs(n - 1)
       IN  {<<s>> : s \in BlockShapes}
             \cup shorter
             \cup {Append(q, s) : q \in {x \in shorter : Len(x) = n - 1}, s \in RequestedNames}

\* responses to a call whose answer is only read through content[0].text (the
\* final call of the loop and the follow-up call): any stop reason, one block
TextOnlyResponses == StopReasons \X ShapeSeqs(1)

\* responses to a call whose blocks are iterated when the stop reason is
\* tool_use (a round's call and the single-round call): up to MaxBlocks blocks
\* with stop reason tool_use, one block otherwise
IteratedResponses ==
  ({"tool_use"} \X ShapeSeqs(MaxBlocks)) \cup TextOnlyResponses

\* the k-th content block of the response to the c-th model call
Block(shape, c, k) ==
  [type |-> IF shape = "text" THEN "text" ELSE "tool_use",
   name |-> IF shape = "text" THEN "" ELSE shape,
   id   |-> <<c, k>>,
   text |-> c]

\* the response object returned by the c-th model call
Response(c, stop, shapes) ==
  [stop_reason |-> stop,
   content     |-> [k \in 1..Len(shapes) |-> Block(shapes[k], c, k)]]

\* ------------------------------------------------------------------- state
VARIABLES
  pc,            \* position of the generate_response call
  conversation_history,  \* the history text passed, an Optional[str]
  tools,         \* TRUE iff a non-empty tool schema list was passed
  tool_manager,  \* TRUE iff a tool manager was passed
  max_rounds,    \* the round budget passed
  round_number,  \* loop variable of _execute_sequential_rounds
  messages,      \* the conversation (list of turns)
  content,       \* response.content of the response being processed
  block_idx,     \* position in content of the tool_use block to run next
  tool_results,  \* results collected in the current round
  api_log,       \* history: the model calls made, in order
  exec_log,      \* history: the execute_tool calls made, in order
  result,        \* what generate_response gave back to its caller
  search_sources,   \* CourseSearchTool.last_sources
  outline_sources,  \* CourseOutlineTool.last_sources
  registry,      \* ToolManager.tools: the registered names, in insertion order
  tool_at,       \* ToolManager.tools: the tool held under each registered name
  reg_log,       \* history: the register_tool calls made, in order
  request,       \* the tool call about to be made, when it was fixed beforehand
  last_call,     \* history: the latest tool or registry call, with what it returned
  qpc,           \* position of each caller that runs queries on the registry
  writer,        \* history: whose execution assigned each tool's last_sources
  read_from,     \* history: whose entries each caller's latest read contained
  recorded,      \* history: did an execution of the caller's query record hits
  overlapped     \* history: did another query run during the caller's query

gvars == <<pc, conversation_history, tools, tool_manager, max_rounds, round_number, messages,
           content, block_idx, tool_results, api_log, exec_log, result>>

tvars == <<search_sources, outline_sources, registry, tool_at, reg_log, request, last_call,
           qpc, writer, read_from, recorded, overlapped>>

vars == <<pc, conversation_history, tools, tool_manager, max_rounds, round_number, messages,
          content, block_idx, tool_results, api_log, exec_log, result,
          search_sources, outline_sources, registry, tool_at, reg_log, request, last_call,
          qpc, writer, read_from, recorded, overlapped>>

NoResult == [kind |-> "none"]

\* ----------------------------------------------------- AIGenerator helpers
\* the seed conversation: one user turn holding the query
QueryTurn == [role |-> "user", content |-> <<[type |-> "query"]>>]

AssistantTurn_AsUser(c) == [role |-> "user", content |-> c]

AssistantTurn(c) == [role |-> "assistant", content |-> c]

ResultsTurn(rs) == [role |-> "user", content |-> rs]

\* the round budget of generate_response when the caller passes none
DefaultMaxRounds == 2

\* variant: the loop is entered only above the default budget
UseSequentialRounds_AboveDefault(t, tm, mr) == t /\ tm /\ mr > DefaultMaxRounds

\* variant: the round budget is not looked at
UseSequentialRounds_NoBudget(t, tm, mr) == t /\ tm

\* generate_response: the condition that selects the multi-round loop
UseSequentialRounds(t, tm, mr) == t /\ tm /\ mr > 1

\* response.content[0].text
ResponseText(resp) == resp.content[1].text

\* the text answer handed back to the caller
TextAnswer(resp) == [kind |-> "text", text |-> ResponseText(resp)]

\* variant: the tool exception reaches the outer handler of the round
ToolFailure_OuterHandler(msg) == [kind |-> "round_error", round |-> round_number, msg |-> msg]

\* f"Tool execution failed: {str(e)}"
ToolFailure(msg) == [kind |-> "tool_failed", msg |-> msg]

\* variant: rounds are numbered from zero in the error message
RoundError_ZeroBased(n, msg) == [kind |-> "round_error", round |-> n - 1, msg |-> msg]

\* f"Error in round {round_number}: {str(e)}"
RoundError(n, msg) == [kind |-> "round_error", round |-> n, msg |-> msg]

\* "Maximum rounds completed without final response."
MaxRoundsFallback == [kind |-> "max_rounds_fallback"]

\* variant: the single-round path reports failures as a returned string too
Raised_AsString(msg) == [kind |-> "round_error", round |-> 1, msg |-> msg]

\* variant: the exception is replaced by one with a message of its own
Raised_Reworded(msg) == [kind |-> "raised", msg |-> "generate_response failed"]

\* an exception leaving generate_response
Raised(msg) == [kind |-> "raised", msg |-> msg]

\* does a round's model request carry the tool schemas
RoundCallHasTools == TRUE

\* variant: the final request still carries the tool schemas
FinalCallHasTools_Attached == TRUE

\* does the final request of the loop carry the tool schemas
FinalCallHasTools == FALSE

\* does the request of _execute_single_round carry the tool schemas
SingleCallHasTools(t) == t

\* does the follow-up request of _handle_tool_execution carry tool schemas
FollowUpCallHasTools_Attached == TRUE

FollowUpCallHasTools == FALSE

\* variant: only "end_turn" is taken as a direct answer
IsDirectAnswer_EndTurnOnly(resp) == resp.stop_reason = "end_turn"

\* if response.stop_reason != "tool_use": return
IsDirectAnswer(resp) == resp.stop_reason # "tool_use"

\* if response.stop_reason == "tool_use" and tool_manager
SingleRoundRunsTools_WithoutManager(resp, tm) == resp.stop_reason = "tool_use"

SingleRoundRunsTools(resp, tm) == resp.stop_reason = "tool_use" /\ tm

\* variant: the block type is not looked at
IsToolUse_AnyBlock(b) == TRUE

\* if content_block.type == "tool_use"
IsToolUse(b) == b.type = "tool_use"

\* position of the first tool_use block at or after position from, 0 if none
NextToolUse(c, from) ==
  LET S == {k \in from..Len(c) : IsToolUse(c[k])}
  IN  IF S = {} THEN 0 ELSE CHOOSE k \in S : \A j \in S : k <= j

\* variant: every result is filed under the first block's identifier
ToolResult_FirstId(b, out) ==
  [type |-> "tool_result", tool_use_id |-> <<b.id[1], 1>>, content |-> out]

\* the tool_result entry built for a block
ToolResult(b, out) ==
  [type |-> "tool_result", tool_use_id |-> b.id, content |-> out]

\* if tool_results: messages.append(...)
WithResults_DropsEarlier(msgs, rs) ==
  IF rs # <<>> THEN <<ResultsTurn(rs)>> ELSE msgs

WithResults_AlsoEmpty(msgs, rs) == Append(msgs, ResultsTurn(rs))

WithResults(msgs, rs) ==
  IF rs # <<>> THEN Append(msgs, ResultsTurn(rs)) ELSE msgs

\* variant: the last-round test is off by one
IsLastRound_Strict(r, mr) == r > mr

\* variant: the last-round test never succeeds
IsLastRound_Never(r, mr) == FALSE

\* if round_number >= max_rounds
IsLastRound(r, mr) == r >= mr

\* for round_number in range(1, max_rounds + 1): is there a next iteration
HasNextRound(r, mr) == r + 1 <= mr

\* ----------------------------------------------------- ToolManager helpers
\* variant: dispatch without the membership test
IsRegistered_Unchecked(name) == TRUE

\* if tool_name not in self.tools
IsRegistered(name) == name \in RegisteredTools

\* f"Tool '{tool_name}' not found"
ToolNotFound(name) == [kind |-> "not_found", name |-> name]

\* the string a tool's execute returned
ToolOutput(name, id) == [kind |-> "output", name |-> name, id |-> id]

\* -------------------------------------------------------------- history
\* the system instructions of every request: SYSTEM_PROMPT, followed by the
\* "Previous conversation" section when the history is truthy
SystemContent_IsNotNone(h) ==
  [prompt |-> "SYSTEM_PROMPT", previous |-> h]

SystemContent(h) ==
  [prompt |-> "SYSTEM_PROMPT", previous |-> IF h # <<>> /\ h[1] # "" THEN h ELSE <<>>]

ApiEntry(phase, r, hasTools, msgs, raised, stop, c) ==
  [phase |-> phase, round |-> r, tools |-> hasTools, messages |-> msgs,
   system |-> SystemContent(conversation_history),
   raised |-> raised, stop_reason |-> stop, content |-> c]

ExecEntry(phase, r, b, ran, raised) ==
  [phase |-> phase, round |-> r, name |-> b.name, id |-> b.id,
   after_call |-> Len(api_log), ran_tool |-> ran, raised |-> raised]

\* -------------------------------------------------------------------- Init
\* the names the two tools register under: get_tool_definition()["name"]
SearchName == "search_course_content"

OutlineName == "get_course_outline"

\* the callers that run queries on one shared registry
Callers == {"q1", "q2"}

NoCall == [op |-> "none"]

\* the tools and the registry after construction and registration in the
\* order reg, with the call req about to be made: both last_sources lists
\* are empty, no query is running
ToolsInit(reg, req) ==
  /\ search_sources = <<>>
  /\ outline_sources = <<>>
  /\ registry = reg
  /\ tool_at = [n \in {reg[i] : i \in 1..Len(reg)} |->
               IF n = SearchName THEN "search" ELSE "outline"]
  /\ reg_log = [i \in 1..Len(reg) |->
                  [tool |-> [id |-> tool_at[reg[i]], name |-> <<reg[i]>>], raised |-> FALSE]]
  /\ request = req
  /\ last_call = NoCall
  /\ qpc = [q \in Callers |-> "idle"]
  /\ writer = [t \in {SearchName, OutlineName} |-> "none"]
  /\ read_from = [q \in Callers |-> {}]
  /\ recorded = [q \in Callers |-> FALSE]
  /\ overlapped = [q \in Callers |-> FALSE]

\* no generate_response call has been made
GeneratorInit ==
  /\ pc = "idle"
  /\ conversation_history = <<>>
  /\ tools = FALSE
  /\ tool_manager = FALSE
  /\ max_rounds = 0
  /\ round_number = 0
  /\ messages = <<>>
  /\ content = <<>>
  /\ block_idx = 0
  /\ tool_results = <<>>
  /\ api_log = <<>>
  /\ exec_log = <<>>
  /\ result = NoResult

Init ==
  /\ GeneratorInit
  /\ ToolsInit(<<SearchName, OutlineName>>, NoCall)

\* the function returns: locals are dropped, the caller holds the result
Return_Stuck(res) ==
  /\ pc' = "stuck"
  /\ result' = res
  /\ content' = <<>>
  /\ block_idx' = 0
  /\ tool_results' = <<>>

Return(res) ==
  /\ pc' = "done"
  /\ result' = res
  /\ content' = <<>>
  /\ block_idx' = 0
  /\ tool_results' = <<>>

\* ----------------------------------------------------------------- actions
\* generate_response(query, conversation_history=h, tools=t, tool_manager=tm,
\* max_rounds=mr): entry
GenerateResponse(h, t, tm, mr) ==
  /\ pc = "idle"
  /\ conversation_history' = h
  /\ tools' = t
  /\ tool_manager' = tm
  /\ max_rounds' = mr
  /\ messages' = <<QueryTurn>>
  /\ IF UseSequentialRounds(t, tm, mr)
       THEN /\ pc' = "round_call"
            /\ round_number' = 1
       ELSE /\ pc' = "single_call"
            /\ round_number' = 0
  /\ UNCHANGED <<content, block_idx, tool_results, api_log, exec_log, result>>
  /\ UNCHANGED tvars

\* the round body after its tool calls: lines 195-207 and the loop header
EndRound(msgs, rs) ==
  /\ messages' = WithResults(msgs, rs)
  /\ IF IsLastRound(round_number, max_rounds)
       THEN /\ pc' = "final_call"
            /\ UNCHANGED <<round_number, result>>
            /\ content' = <<>>
            /\ block_idx' = 0
            /\ tool_results' = <<>>
       ELSE IF HasNextRound(round_number, max_rounds)
         THEN /\ pc' = "round_call"
              /\ round_number' = round_number + 1
              /\ UNCHANGED result
              /\ content' = <<>>
              /\ block_idx' = 0
              /\ tool_results' = <<>>
         ELSE /\ Return(MaxRoundsFallback)
              /\ UNCHANGED round_number

\* a round's model call raises: except Exception -> "Error in round N"
RoundCallRaises ==
  /\ pc = "round_call"
  /\ api_log' = Append(api_log,
        ApiEntry("round", round_number, RoundCallHasTools, messages, TRUE, "none", <<>>))
  /\ Return(RoundError(round_number, ApiErrorMsg))
  /\ UNCHANGED <<conversation_history, tools, tool_manager, max_rounds, round_number, messages, exec_log>>
  /\ UNCHANGED tvars

\* a round's model call returns a response: lines 164-177
RoundCallReturns(stop, shapes) ==
  /\ pc = "round_call"
  /\ LET c    == Len(api_log) + 1
         resp == Response(c, stop, shapes)
         msgs == Append(messages, AssistantTurn(resp.content))
         nxt  == NextToolUse(resp.content, 1)
     IN  /\ api_log' = Append(api_log,
               ApiEntry("round", round_number, RoundCallHasTools, messages, FALSE, stop,
                        resp.content))
         /\ IF IsDirectAnswer(resp)
              THEN /\ Return(TextAnswer(resp))
                   /\ UNCHANGED <<round_number, messages>>
              ELSE IF nxt = 0
                THEN EndRound(msgs, <<>>)
                ELSE /\ pc' = "round_tools"
                     /\ messages' = msgs
                     /\ content' = resp.content
                     /\ block_idx' = nxt
                     /\ tool_results' = <<>>
                     /\ UNCHANGED <<round_number, result>>
  /\ UNCHANGED <<conversation_history, tools, tool_manager, max_rounds, exec_log>>
  /\ UNCHANGED tvars

\* ToolManager.execute_tool: what the call hands back when it does not raise
ExecuteToolResult(b) ==
  IF IsRegistered(b.name) THEN ToolOutput(b.name, b.id) ELSE ToolNotFound(b.name)

\* ToolManager.execute_tool: does the call reach a tool's execute
RunsTool(b) == IsRegistered(b.name)

\* the record kept of an execute_tool call that returned, in both paths
AfterToolReturn(phase) ==
  /\ exec_log' = Append(exec_log,
        ExecEntry(phase, round_number, content[block_idx], RunsTool(content[block_idx]), FALSE))
  /\ UNCHANGED <<conversation_history, tools, tool_manager, max_rounds, api_log>>

\* a tool call of a round returns: lines 177-190, then 195-207 after the last
RoundToolReturns ==
  /\ pc = "round_tools"
  /\ LET b   == content[block_idx]
         rs  == Append(tool_results, ToolResult(b, ExecuteToolResult(b)))
         nxt == NextToolUse(content, block_idx + 1)
     IN  /\ AfterToolReturn("round")
         /\ IF nxt = 0
              THEN EndRound(messages, rs)
              ELSE /\ block_idx' = nxt
                   /\ tool_results' = rs
                   /\ UNCHANGED <<pc, round_number, messages, content, result>>
  /\ UNCHANGED tvars

\* a tool call of a round raises: lines 191-193
RoundToolRaises_RollsBack ==
  /\ pc = "round_tools"
  /\ RunsTool(content[block_idx])
  /\ exec_log' = Append(exec_log,
        ExecEntry("round", round_number, content[block_idx], TRUE, TRUE))
  /\ Return(ToolFailure(ToolErrorMsg))
  /\ search_sources' = <<>>
  /\ UNCHANGED <<conversation_history, tools, tool_manager, max_rounds, round_number,
                 messages, api_log>>
  /\ UNCHANGED <<outline_sources, registry, tool_at, reg_log, request, last_call, qpc,
                 writer, read_from, recorded, overlapped>>

RoundToolRaises ==
  /\ pc = "round_tools"
  /\ RunsTool(content[block_idx])
  /\ exec_log' = Append(exec_log,
        ExecEntry("round", round_number, content[block_idx], TRUE, TRUE))
  /\ Return(ToolFailure(ToolErrorMsg))
  /\ UNCHANGED <<conversation_history, tools, tool_manager, max_rounds, round_number, messages, api_log>>
  /\ UNCHANGED tvars

\* the tools-disabled final call of the loop raises: lines 206, 209-211
FinalCallRaises ==
  /\ pc = "final_call"
  /\ api_log' = Append(api_log,
        ApiEntry("final", round_number, FinalCallHasTools, messages, TRUE, "none", <<>>))
  /\ Return(RoundError(round_number, ApiErrorMsg))
  /\ UNCHANGED <<conversation_history, tools, tool_manager, max_rounds, round_number, messages, exec_log>>
  /\ UNCHANGED tvars

\* the tools-disabled final call of the loop returns: lines 206-207
FinalCallReturns(stop, shapes) ==
  /\ pc = "final_call"
  /\ api_log' = Append(api_log,
        ApiEntry("final", round_number, FinalCallHasTools, messages, FALSE, stop,
                 Response(Len(api_log) + 1, stop, shapes).content))
  /\ Return(TextAnswer(Response(Len(api_log) + 1, stop, shapes)))
  /\ UNCHANGED <<conversation_history, tools, tool_manager, max_rounds, round_number, messages, exec_log>>
  /\ UNCHANGED tvars

\* the model call of _execute_single_round raises: line 120, not caught
SingleCallRaises ==
  /\ pc = "single_call"
  /\ api_log' = Append(api_log,
        ApiEntry("single", round_number, SingleCallHasTools(tools), messages, TRUE, "none", <<>>))
  /\ Return(Raised(ApiErrorMsg))
  /\ UNCHANGED <<conversation_history, tools, tool_manager, max_rounds, round_number, messages, exec_log>>
  /\ UNCHANGED tvars

\* _handle_tool_execution after its tool calls: lines 252-261
EndSingleTools(msgs, rs) ==
  /\ messages' = WithResults(msgs, rs)
  /\ pc' = "followup_call"
  /\ content' = <<>>
  /\ block_idx' = 0
  /\ tool_results' = <<>>
  /\ UNCHANGED <<round_number, result>>

\* the model call of _execute_single_round returns: lines 120-127, 230-239
SingleCallReturns(stop, shapes) ==
  /\ pc = "single_call"
  /\ LET c    == Len(api_log) + 1
         resp == Response(c, stop, shapes)
         msgs == Append(messages, AssistantTurn(resp.content))
         nxt  == NextToolUse(resp.content, 1)
     IN  /\ api_log' = Append(api_log,
               ApiEntry("single", round_number, SingleCallHasTools(tools), messages, FALSE, stop,
                        resp.content))
         /\ IF SingleRoundRunsTools(resp, tool_manager)
              THEN IF nxt = 0
                THEN EndSingleTools(msgs, <<>>)
                ELSE /\ pc' = "single_tools"
                     /\ messages' = msgs
                     /\ content' = resp.content
                     /\ block_idx' = nxt
                     /\ tool_results' = <<>>
                     /\ UNCHANGED <<round_number, result>>
              ELSE /\ Return(TextAnswer(resp))
                   /\ UNCHANGED <<round_number, messages>>
  /\ UNCHANGED <<conversation_history, tools, tool_manager, max_rounds, exec_log>>
  /\ UNCHANGED tvars

\* a tool call of _handle_tool_execution returns: lines 238-250, then 252-261
SingleToolReturns ==
  /\ pc = "single_tools"
  /\ LET b   == content[block_idx]
         rs  == Append(tool_results, ToolResult(b, ExecuteToolResult(b)))
         nxt == NextToolUse(content, block_idx + 1)
     IN  /\ AfterToolReturn("single")
         /\ IF nxt = 0
              THEN EndSingleTools(messages, rs)
              ELSE /\ block_idx' = nxt
                   /\ tool_results' = rs
                   /\ UNCHANGED <<pc, round_number, messages, content, result>>
  /\ UNCHANGED tvars

\* a tool call of _handle_tool_execution raises: line 240, not caught
SingleToolRaises_Caught ==
  /\ pc = "single_tools"
  /\ RunsTool(content[block_idx])
  /\ exec_log' = Append(exec_log,
        ExecEntry("single", round_number, content[block_idx], TRUE, TRUE))
  /\ Return(ToolFailure(ToolErrorMsg))
  /\ UNCHANGED <<conversation_history, tools, tool_manager, max_rounds, round_number,
                 messages, api_log>>
  /\ UNCHANGED tvars

SingleToolRaises ==
  /\ pc = "single_tools"
  /\ RunsTool(content[block_idx])
  /\ exec_log' = Append(exec_log,
        ExecEntry("single", round_number, content[block_idx], TRUE, TRUE))
  /\ Return(Raised(ToolErrorMsg))
  /\ UNCHANGED <<conversation_history, tools, tool_manager, max_rounds, round_number, messages, api_log>>
  /\ UNCHANGED tvars

\* the follow-up call of _handle_tool_execution raises: line 264, not caught
FollowUpCallRaises ==
  /\ pc = "followup_call"
  /\ api_log' = Append(api_log,
        ApiEntry("followup", round_number, FollowUpCallHasTools, messages, TRUE, "none", <<>>))
  /\ Return(Raised(ApiErrorMsg))
  /\ UNCHANGED <<conversation_history, tools, tool_manager, max_rounds, round_number, messages, exec_log>>
  /\ UNCHANGED tvars

\* the follow-up call of _handle_tool_execution returns: lines 264-265
FollowUpCallReturns(stop, shapes) ==
  /\ pc = "followup_call"
  /\ api_log' = Append(api_log,
        ApiEntry("followup", round_number, FollowUpCallHasTools, messages, FALSE, stop,
                 Response(Len(api_log) + 1, stop, shapes).content))
  /\ Return(TextAnswer(Response(Len(api_log) + 1, stop, shapes)))
  /\ UNCHANGED <<conversation_history, tools, tool_manager, max_rounds, round_number, messages, exec_log>>
  /\ UNCHANGED tvars

\* ------------------------------------------------------------ specification
Next ==
  \/ \E t \in BOOLEAN, tm \in BOOLEAN, mr \in 0..MaxRounds :
        GenerateResponse(<<>>, t, tm, mr)
  \/ RoundCallRaises
  \/ \E r \in IteratedResponses : RoundCallReturns(r[1], r[2])
  \/ RoundToolReturns
  \/ RoundToolRaises
  \/ FinalCallRaises
  \/ \E r \in TextOnlyResponses : FinalCallReturns(r[1], r[2])
  \/ SingleCallRaises
  \/ \E r \in IteratedResponses : SingleCallReturns(r[1], r[2])
  \/ SingleToolReturns
  \/ SingleToolRaises
  \/ FollowUpCallRaises
  \/ \E r \in TextOnlyResponses : FollowUpCallReturns(r[1], r[2])

Spec == Init /\ [][Next]_vars

\* every model call and every tool call returns or raises: a step that can
\* be taken is taken in the end
SpecLive == Init /\ [][Next]_vars /\ WF_vars(Next)

\* ------------------------------- specification: calls that pass a history
\* the histories passed: none, the empty string, a text
HistoryValues == {<<>>, <<"">>, <<"User: hi">>}

\* every call with every history; each response has one block
NextHistory ==
  \/ \E h \in HistoryValues, t \in BOOLEAN, tm \in BOOLEAN, mr \in 0..MaxRounds :
        GenerateResponse(h, t, tm, mr)
  \/ RoundCallRaises
  \/ \E r \in TextOnlyResponses : RoundCallReturns(r[1], r[2])
  \/ RoundToolReturns
  \/ RoundToolRaises
  \/ FinalCallRaises
  \/ \E r \in TextOnlyResponses : FinalCallReturns(r[1], r[2])
  \/ SingleCallRaises
  \/ \E r \in TextOnlyResponses : SingleCallReturns(r[1], r[2])
  \/ SingleToolReturns
  \/ SingleToolRaises
  \/ FollowUpCallRaises
  \/ \E r \in TextOnlyResponses : FollowUpCallReturns(r[1], r[2])

SpecHistory == Init /\ [][NextHistory]_vars

\* ------------------------------------------------------- history operators
\* number of model calls made with / without tool schemas attached
CallsWithTools == Cardinality({n \in DOMAIN api_log : api_log[n].tools})
CallsWithoutTools == Cardinality({n \in DOMAIN api_log : ~api_log[n].tools})

\* execute_tool calls made after the c-th model call and before the next one
ExecAfter(c) == SelectSeq(exec_log, LAMBDA e : e.after_call = c)

\* the tool_use blocks of the response to the c-th model call, in order
Requested(c) == SelectSeq(api_log[c].content, LAMBDA b : b.type = "tool_use")

\* ------------------------------------------------------------------ claims
\* C1 (as stated): for every round budget B >= 1, one generate_response call
\* makes at most B model calls with tool schemas, at most one without, and
\* at most B+1 in total.
C1_AsStated ==
  (pc # "idle" /\ max_rounds >= 1) =>
     /\ CallsWithTools <= max_rounds
     /\ CallsWithoutTools <= 1
     /\ Len(api_log) <= max_rounds + 1

\* C1 (amended): for every round budget B >= 1, one generate_response call
\* makes at most B model calls with tool schemas and at most B+1 in total,
\* and at most one call without tool schemas when tool schemas were supplied.
C1_CallBudget ==
  (pc # "idle" /\ max_rounds >= 1) =>
     /\ CallsWithTools <= max_rounds
     /\ Len(api_log) <= max_rounds + 1
     /\ (tools => CallsWithoutTools <= 1)

\* C1 witness: a loop run that used the whole budget and the final call
C1_Witness ==
  /\ pc = "done"
  /\ max_rounds >= 2
  /\ CallsWithTools = max_rounds
  /\ CallsWithoutTools = 1

\* C2: in the loop, a round response whose stop reason is not tool_use ends
\* the query with that response's text: no tool runs in that round and no
\* model call follows; a non-tool-use first response means exactly one model
\* call and no tool execution.
C2_EarlyTermination ==
  \A n \in DOMAIN api_log :
    (api_log[n].phase = "round" /\ ~api_log[n].raised
        /\ api_log[n].stop_reason # "tool_use") =>
       /\ n = Len(api_log)
       /\ pc = "done"
       /\ result.kind = "text"
       /\ result.text = n
       /\ \A k \in DOMAIN exec_log : exec_log[k].after_call # n
       /\ (n = 1 => exec_log = <<>>)

\* C2 witness: round 1 answered directly with budget left, although its
\* response carried a tool_use block
C2_Witness ==
  /\ pc = "done"
  /\ Len(api_log) = 1
  /\ api_log[1].phase = "round"
  /\ api_log[1].stop_reason = "max_tokens"
  /\ api_log[1].round < max_rounds
  /\ Requested(1) # <<>>
  /\ result.kind = "text"

\* C3: when each of the rounds 1..B returned tool_use and round B's tools have
\* run, exactly one more model call is made, without tool schemas; its text is
\* returned whatever its stop reason, and no tool and no model call follows.
C3_ForcedFinal ==
  (/\ tools /\ tool_manager /\ max_rounds >= 1
   /\ Len(api_log) >= max_rounds
   /\ \A n \in 1..max_rounds :
        ~api_log[n].raised /\ api_log[n].stop_reason = "tool_use") =>
     \/ pc \in {"round_tools", "single_tools"}
     \/ pc \in {"final_call", "followup_call"} /\ Len(api_log) = max_rounds
     \/ /\ pc = "done"
        /\ \E k \in DOMAIN exec_log : exec_log[k].raised
        /\ Len(api_log) = max_rounds
     \/ /\ pc = "done"
        /\ Len(api_log) = max_rounds + 1
        /\ api_log[max_rounds + 1].phase \in {"final", "followup"}
        /\ ~api_log[max_rounds + 1].tools
        /\ \A k \in DOMAIN exec_log : exec_log[k].after_call <= max_rounds
        /\ (~api_log[max_rounds + 1].raised =>
              result.kind = "text" /\ result.text = max_rounds + 1)

\* C3 witness: the final call of a loop answered with stop reason tool_use and
\* a tool_use block, and its text was returned
C3_Witness ==
  /\ pc = "done"
  /\ max_rounds >= 2
  /\ Len(api_log) = max_rounds + 1
  /\ api_log[max_rounds + 1].phase = "final"
  /\ api_log[max_rounds + 1].stop_reason = "tool_use"
  /\ Requested(max_rounds + 1) # <<>>
  /\ result.kind = "text"

C5_RoundError ==
  \A n \in DOMAIN api_log :
    (api_log[n].phase \in {"round", "final"} /\ api_log[n].raised) =>
       /\ n = Len(api_log)
       /\ pc = "done"
       /\ result.kind = "round_error"
       /\ result.round = api_log[n].round
       /\ result.msg = ApiErrorMsg
       /\ (api_log[n].phase = "final" => result.round = max_rounds)
       /\ (api_log[n].phase = "round" => result.round = n)
       /\ \A k \in DOMAIN exec_log : exec_log[k].after_call < n

\* C5 witness: the final call of a loop raised
C5_Witness ==
  /\ pc = "done"
  /\ api_log # <<>>
  /\ api_log[Len(api_log)].phase = "final"
  /\ api_log[Len(api_log)].raised
  /\ result.kind = "round_error"

\* some model call or tool call of this query raised
SomethingRaised ==
  \/ \E n \in DOMAIN api_log : api_log[n].raised
  \/ \E k \in DOMAIN exec_log : exec_log[k].raised

\* C6 (as stated): generate_response never raises: on every path a model-call
\* failure or a tool failure ends the query with a returned string.
C6_AsStated == pc = "done" => result.kind # "raised"

\* C6 (amended): generate_response never raises out of the multi-round loop,
\* where every model-call or tool failure ends the query with a returned
\* string; on the single-round path every model-call or tool failure leaves
\* generate_response as an exception.
C6_RaisesOnlyOnSinglePath ==
  pc = "done" =>
     /\ (tools /\ tool_manager /\ max_rounds > 1) =>
           result.kind \in {"text", "tool_failed", "round_error"}
     /\ ~(tools /\ tool_manager /\ max_rounds > 1) =>
           /\ result.kind \in {"text", "raised"}
           /\ (result.kind = "raised") <=> SomethingRaised
     /\ (result.kind = "text") <=> ~SomethingRaised

\* C6 witness: a tool raised on the single-round path and the exception left
\* generate_response
C6_Witness ==
  /\ pc = "done"
  /\ result.kind = "raised"
  /\ result.msg = ToolErrorMsg
  /\ tools /\ tool_manager

\* C7 (as stated): with a zero budget, or without tool schemas or without a
\* tool manager, generate_response skips the loop and makes exactly one
\* model call.
C7_AsStated ==
  (pc = "done" /\ (max_rounds = 0 \/ ~tools \/ ~tool_manager)) =>
     /\ round_number = 0
     /\ Len(api_log) = 1

\* C7 (amended): with a zero budget, or without tool schemas or without a
\* tool manager, generate_response skips the loop and takes the single-round
\* path: one model call, followed by exactly one follow-up call without tool
\* schemas only when a tool manager was supplied, the first response's stop
\* reason is tool_use and no tool raised; otherwise exactly one model call.
C7_SingleRoundPath ==
  (pc # "idle" /\ (max_rounds = 0 \/ ~tools \/ ~tool_manager)) =>
     /\ round_number = 0
     /\ pc \in {"single_call", "single_tools", "followup_call", "done"}
     /\ \A n \in DOMAIN api_log : api_log[n].phase = (IF n = 1 THEN "single" ELSE "followup")
     /\ Len(api_log) <= 2
     /\ (pc = "done") =>
          /\ Len(api_log) >= 1
          /\ api_log[1].tools = tools
          /\ (Len(api_log) = 2) <=>
                /\ tool_manager
                /\ ~api_log[1].raised
                /\ api_log[1].stop_reason = "tool_use"
                /\ \A k \in DOMAIN exec_log : ~exec_log[k].raised
          /\ (Len(api_log) = 2 => ~api_log[2].tools)

\* C7 witness: zero budget, schemas and manager supplied, two model calls
C7_Witness ==
  /\ pc = "done"
  /\ max_rounds = 0
  /\ tools /\ tool_manager
  /\ Len(api_log) = 2
  /\ exec_log # <<>>

\* C8: within a round the requested tool calls run one at a time in request
\* order, each at most once and, by the time the next model call is made,
\* exactly once, between that round's response and the next model call; the
\* results are appended as one turn after the last tool, the i-th result
\* carrying the identifier of the i-th tool call.
C8_ToolOrder ==
  /\ \A c \in DOMAIN api_log :
        /\ Len(ExecAfter(c)) <= Len(Requested(c))
        /\ \A i \in DOMAIN ExecAfter(c) :
              /\ ExecAfter(c)[i].id = Requested(c)[i].id
              /\ ExecAfter(c)[i].name = Requested(c)[i].name
  /\ \A k \in DOMAIN exec_log :
        /\ exec_log[k].after_call >= 1
        /\ k > 1 => exec_log[k - 1].after_call <= exec_log[k].after_call
  /\ \A n \in DOMAIN api_log :
        (n > 1 /\ Requested(n - 1) # <<>>) =>
           LET sent == api_log[n].messages
               last == sent[Len(sent)]
           IN  /\ Len(ExecAfter(n - 1)) = Len(Requested(n - 1))
               /\ Len(sent) = Len(api_log[n - 1].messages) + 2
               /\ sent[Len(sent) - 1] = [role |-> "assistant", content |-> api_log[n - 1].content]
               /\ last.role = "user"
               /\ Len(last.content) = Len(Requested(n - 1))
               /\ \A i \in DOMAIN last.content :
                     /\ last.content[i].type = "tool_result"
                     /\ last.content[i].tool_use_id = Requested(n - 1)[i].id

\* C8 witness: a response requested two tools and the next model call was
\* sent both results
C8_Witness ==
  /\ Len(api_log) >= 2
  /\ Len(Requested(1)) = 2
  /\ Len(api_log[2].messages[3].content) = 2

\* the response to the c-th model call has stop reason tool_use and no
\* tool_use block
Malformed(c) ==
  /\ ~api_log[c].raised
  /\ api_log[c].stop_reason = "tool_use"
  /\ Requested(c) = <<>>

\* C9: a response with stop reason tool_use and no tool_use block runs no tool
\* and does not fail the query: the loop goes on to the next round, or to the
\* tools-disabled final call when the budget is reached, and a query in which
\* nothing raised returns a model text.
C9_MalformedToolUse ==
  \A c \in DOMAIN api_log :
    (api_log[c].phase = "round" /\ Malformed(c)) =>
       /\ ExecAfter(c) = <<>>
       /\ (c = Len(api_log)) =>
             \/ /\ pc = "round_call"
                /\ round_number = api_log[c].round + 1
                /\ round_number <= max_rounds
             \/ /\ pc = "final_call"
                /\ api_log[c].round = max_rounds
       /\ (c < Len(api_log)) =>
             /\ api_log[c + 1].phase = (IF api_log[c].round = max_rounds THEN "final" ELSE "round")
             /\ api_log[c + 1].tools = (api_log[c].round # max_rounds)
       /\ (pc = "done" /\ ~SomethingRaised) =>
             result.kind = "text" /\ result.text = Len(api_log)

\* C9 witness: the last round's response was malformed and the final call's
\* text was returned
C9_Witness ==
  /\ pc = "done"
  /\ result.kind = "text"
  /\ Len(api_log) = max_rounds + 1
  /\ max_rounds >= 2
  /\ api_log[max_rounds].phase = "round"
  /\ Malformed(max_rounds)
  /\ Malformed(1)

\* C10: a tool call naming an unregistered tool never aborts a round:
\* execute_tool returns the "not found" string without raising and without
\* running a tool, the loop records that string as the call's result, and the
\* query continues to the next model call.
C10_UnknownTool ==
  /\ \A k \in DOMAIN exec_log :
        (exec_log[k].name \notin RegisteredTools) =>
           /\ ~exec_log[k].raised
           /\ ~exec_log[k].ran_tool
           /\ (k = Len(exec_log) /\ pc = "done") => Len(api_log) > exec_log[k].after_call
  /\ \A n \in DOMAIN api_log :
        n > 1 =>
          \A i \in DOMAIN Requested(n - 1) :
            (Requested(n - 1)[i].name \notin RegisteredTools) =>
               LET sent == api_log[n].messages
                   r    == sent[Len(sent)].content[i]
               IN  /\ r.tool_use_id = Requested(n - 1)[i].id
                   /\ r.content = [kind |-> "not_found", name |-> Requested(n - 1)[i].name]

\* C10 witness: an unregistered tool was requested in a loop round and the
\* next round's model call was made with the "not found" result
C10_Witness ==
  /\ Len(api_log) >= 2
  /\ api_log[2].phase = "round"
  /\ ExecAfter(1) # <<>>
  /\ ExecAfter(1)[1].name = "nonexistent_tool"
  /\ ~ExecAfter(1)[1].ran_tool

\* ======================================================================
\* The tools of search_tools.py and the registry that holds them
\* ======================================================================

\* ---------------------------------------------------------- Python values
\* Optional[...] values: None is the empty tuple, a present value v is <<v>>
None == <<>>

Some(v) == <<v>>

\* truthiness of an Optional[str] whose strings are TLA+ strings
TruthyStr(o) == o # None /\ o[1] # ""

\* truthiness of an Optional[int]
TruthyInt(o) == o # None /\ o[1] # 0

\* ------------------------------------------------------- search tool input
MaxHits == 2

\* SearchResults.error when the search went through: None, which is falsy
NoError == ""

IndexErrorMsg == "Vector store connection failed"

\* course titles in the hits' metadata, as character sequences
HitTitles == {<<"A">>, <<"B">>}

LessonUrl == <<"h", "t", "t", "p", "s", ":", "l">>

\* what store.get_lesson_link does for one hit: raises, or returns a value
LookupOutcomes ==
  {[raises |-> TRUE, value |-> None],
   [raises |-> FALSE, value |-> None],
   [raises |-> FALSE, value |-> Some(LessonUrl)]}

\* one (document, metadata) pair of a SearchResults, with what the link
\* lookup for its lesson would do; the lookup only matters with a lesson
Hits ==
  {[doc |-> "text", course_title |-> t, lesson_number |-> None,
    lookup |-> [raises |-> FALSE, value |-> None]] : t \in HitTitles}
  \cup
  {[doc |-> "text", course_title |-> t, lesson_number |-> Some(1), lookup |-> l] :
     t \in HitTitles, l \in LookupOutcomes}

RECURSIVE HitSeqs(_)
HitSeqs(n) ==
  IF n = 0 THEN {<<>>}
  ELSE HitSeqs(n - 1) \cup
       {Append(hs, h) : hs \in {x \in HitSeqs(n - 1) : Len(x) = n - 1}, h \in Hits}

\* the SearchResults the store hands back: an error with no documents, or
\* up to MaxHits documents
SearchResultsValues ==
  {[error |-> IndexErrorMsg, hits |-> <<>>]}
  \cup {[error |-> NoError, hits |-> hs] : hs \in HitSeqs(MaxHits)}

\* the filters a caller passes: absent, falsy or a real value
CourseNameArgs == {None, Some(""), Some("A")}

LessonNumberArgs == {None, Some(0), Some(1)}

\* -------------------------------------------------------- CourseSearchTool
\* SearchResults.is_empty()
IsEmpty(results) == results.hits = <<>>

\* is store.get_lesson_link called for the hit: if lesson_num is not None
LooksUpLink_Always(h) == TRUE

LooksUpLink(h) == h.lesson_number # None

\* the source entry _format_results builds for one hit
HitSource(h) ==
  [text |-> [shape  |-> IF h.lesson_number # None THEN "title - Lesson" ELSE "title",
             title  |-> h.course_title,
             lesson |-> h.lesson_number],
   link |-> IF LooksUpLink(h) /\ ~h.lookup.raises /\ h.lookup.value # None
                 /\ h.lookup.value[1] # <<>>
              THEN h.lookup.value
              ELSE None]

\* the block of the returned text _format_results builds for one hit
HitBlock(h) ==
  [header |-> [title |-> h.course_title, lesson |-> h.lesson_number], doc |-> h.doc]

\* the message of the empty-results branch of execute
NoContentMessage(course_name, lesson_number) ==
  [kind |-> "no_content",
   course |-> IF TruthyStr(course_name) THEN course_name ELSE None,
   lesson |-> IF TruthyInt(lesson_number) THEN lesson_number ELSE None]

\* CourseSearchTool.execute: what it returns and what last_sources is after
\* it; assigned tells whether the call executed self.last_sources = sources,
\* lookups lists the hits get_lesson_link was called for
SearchOutcome_EmptyFirst(course_name, lesson_number, results, old) ==
  IF IsEmpty(results)
    THEN [returned |-> NoContentMessage(course_name, lesson_number),
          last_sources |-> old, assigned |-> FALSE, lookups |-> <<>>]
  ELSE IF results.error # NoError
    THEN [returned |-> [kind |-> "error", msg |-> results.error],
          last_sources |-> old, assigned |-> FALSE, lookups |-> <<>>]
  ELSE [returned |-> [kind |-> "results",
                      blocks |-> [i \in 1..Len(results.hits) |-> HitBlock(results.hits[i])]],
        last_sources |-> [i \in 1..Len(results.hits) |-> HitSource(results.hits[i])],
        assigned |-> TRUE,
        lookups |-> SelectSeq([i \in 1..Len(results.hits) |-> i],
                              LAMBDA i : LooksUpLink(results.hits[i]))]

SearchOutcome_LookupPropagates(course_name, lesson_number, results, old) ==
  IF results.error # NoError
    THEN [returned |-> [kind |-> "error", msg |-> results.error],
          last_sources |-> old, assigned |-> FALSE, lookups |-> <<>>]
  ELSE IF IsEmpty(results)
    THEN [returned |-> NoContentMessage(course_name, lesson_number),
          last_sources |-> old, assigned |-> FALSE, lookups |-> <<>>]
  ELSE IF \E i \in 1..Len(results.hits) :
            LooksUpLink(results.hits[i]) /\ results.hits[i].lookup.raises
    THEN [returned |-> [kind |-> "raised"], last_sources |-> old, assigned |-> FALSE,
          lookups |-> <<>>]
  ELSE [returned |-> [kind |-> "results",
                      blocks |-> [i \in 1..Len(results.hits) |-> HitBlock(results.hits[i])]],
        last_sources |-> [i \in 1..Len(results.hits) |-> HitSource(results.hits[i])],
        assigned |-> TRUE,
        lookups |-> SelectSeq([i \in 1..Len(results.hits) |-> i],
                              LAMBDA i : LooksUpLink(results.hits[i]))]

SearchOutcome_Accumulates(course_name, lesson_number, results, old) ==
  IF results.error # NoError
    THEN [returned |-> [kind |-> "error", msg |-> results.error],
          last_sources |-> old, assigned |-> FALSE, lookups |-> <<>>]
  ELSE IF IsEmpty(results)
    THEN [returned |-> NoContentMessage(course_name, lesson_number),
          last_sources |-> old, assigned |-> FALSE, lookups |-> <<>>]
  ELSE [returned |-> [kind |-> "results",
                      blocks |-> [i \in 1..Len(results.hits) |-> HitBlock(results.hits[i])]],
        last_sources |-> old \o [i \in 1..Len(results.hits) |-> HitSource(results.hits[i])],
        assigned |-> TRUE,
        lookups |-> SelectSeq([i \in 1..Len(results.hits) |-> i],
                              LAMBDA i : LooksUpLink(results.hits[i]))]

SearchOutcome(course_name, lesson_number, results, old) ==
  IF results.error # NoError
    THEN [returned |-> [kind |-> "error", msg |-> results.error],
          last_sources |-> old, assigned |-> FALSE, lookups |-> <<>>]
  ELSE IF IsEmpty(results)
    THEN [returned |-> NoContentMessage(course_name, lesson_number),
          last_sources |-> old, assigned |-> FALSE, lookups |-> <<>>]
  ELSE [returned |-> [kind |-> "results",
                      blocks |-> [i \in 1..Len(results.hits) |-> HitBlock(results.hits[i])]],
        last_sources |-> [i \in 1..Len(results.hits) |-> HitSource(results.hits[i])],
        assigned |-> TRUE,
        lookups |-> SelectSeq([i \in 1..Len(results.hits) |-> i],
                              LAMBDA i : LooksUpLink(results.hits[i]))]

\* who may run a tool: a caller whose query is running, or a direct call
MayExecute(who) == who = "direct" \/ (who \in Callers /\ qpc[who] = "running")

\* the bookkeeping of a tool execution made by who on the tool named name
Attribute(who, name, assigned, sources) ==
  /\ writer' = IF assigned THEN [writer EXCEPT ![name] = who] ELSE writer
  /\ recorded' = IF who \in Callers /\ assigned /\ sources # <<>>
                   THEN [recorded EXCEPT ![who] = TRUE]
                   ELSE recorded
  /\ UNCHANGED <<qpc, read_from, overlapped>>

\* CourseSearchTool.execute(query, course_name, lesson_number), the store
\* answering the search with results
SearchExecute(who, course_name, lesson_number, results) ==
  /\ MayExecute(who)
  /\ LET out == SearchOutcome(course_name, lesson_number, results, search_sources)
     IN  /\ search_sources' = out.last_sources
         /\ last_call' = [op |-> "search", by |-> who, course_name |-> course_name,
                          lesson_number |-> lesson_number, results |-> results,
                          returned |-> out.returned, lookups |-> out.lookups]
         /\ Attribute(who, SearchName, out.assigned, out.last_sources)
  /\ request' = NoCall
  /\ UNCHANGED <<outline_sources, registry, tool_at, reg_log>>
  /\ UNCHANGED gvars

\* ------------------------------------------------------------------ claims
\* C11: after every CourseSearchTool.execute call, last_sources has one
\* entry per hit of that call, and is empty when the call returned an index
\* error or found no content, whatever an earlier call had recorded.
C11_SourcesOfThisCall ==
  last_call.op = "search" =>
    /\ Len(search_sources) = Len(last_call.results.hits)
    /\ (last_call.returned.kind \in {"error", "no_content"} => search_sources = <<>>)

\* what the code does instead: a call without hits leaves the list alone
C11_StaleSources ==
  /\ last_call.op = "search"
  /\ last_call.returned.kind \in {"error", "no_content"}
  /\ search_sources # <<>>

\* ------------------------------------------------------------------ strings
\* a Python str is the sequence of its characters
\* str.lower(), over the capitals that occur in the titles
Lower(str) ==
  LET low(ch) == CASE ch = "A" -> "a"
                   [] ch = "B" -> "b"
                   [] ch = "C" -> "c"
                   [] ch = "D" -> "d"
                   [] ch = "N" -> "n"
                   [] OTHER -> ch
  IN  [i \in 1..Len(str) |-> low(str[i])]

\* the Python test: sub in str
Contains(str, sub) ==
  \E i \in 0..(Len(str) - Len(sub)) : SubSeq(str, i + 1, i + Len(sub)) = sub

\* set(str.split()): the maximal runs of non-blank characters
Words(str) ==
  {SubSeq(str, i, j) : <<i, j>> \in
     {ij \in (1..Len(str)) \X (1..Len(str)) :
        /\ ij[1] <= ij[2]
        /\ \A k \in ij[1]..ij[2] : str[k] # " "
        /\ (ij[1] = 1 \/ str[ij[1] - 1] = " ")
        /\ (ij[2] = Len(str) \/ str[ij[2] + 1] = " ")}}

\* str.startswith(prefix)
StartsWith(str, prefix) ==
  Len(str) >= Len(prefix) /\ SubSeq(str, 1, Len(prefix)) = prefix

\* ----------------------------------------------------- outline tool input
MaxCourses == 2

MaxLessons == 3

NonexistentCourse ==
  <<"N", "o", "n", "e", "x", "i", "s", "t", "e", "n", "t", " ", "C", "o", "u", "r", "s", "e">>

DifferentCourse ==
  <<"D", "i", "f", "f", "e", "r", "e", "n", "t", " ", "C", "o", "u", "r", "s", "e">>

\* titles tool_at by the catalog
CatalogTitles ==
  {<<"a", " ", "b">>, <<"A", " ", "B">>, <<"b", " ", "a">>, <<"a", "b">>, <<"a">>,
   DifferentCourse}

\* titles asked for
QueryTitles ==
  {<<"a", " ", "b">>, <<"A">>, <<"b", " ", "c">>, <<"c">>, <<"z">>, <<>>, NonexistentCourse}

HttpPrefix == <<"h", "t", "t", "p">>

CourseUrl == <<"h", "t", "t", "p", "s", ":", "c">>

NoLinkAvailable ==
  <<"N", "o", " ", "l", "i", "n", "k", " ", "a", "v", "a", "i", "l", "a", "b", "l", "e">>

\* the values the "course_link" key holds
LinkValues ==
  {None, Some(<<>>), Some(<<" ">>), Some(NoLinkAvailable),
   Some(<<"N", "o", "n", "e">>), Some(<<"n", "u", "l", "l">>),
   Some(<<"f", "t", "p", ":", "c">>), Some(<<"w", "w", "w", ".", "c">>),
   Some(<<" ", "h", "t", "t", "p", ":", "c">>),
   Some(<<"h", "t", "t", "p", ":", "c">>), Some(CourseUrl), Some(HttpPrefix)}

\* one lesson entry of a course's lesson list
Lesson(n) == [lesson_number |-> n, lesson_title |-> <<"t">>]

\* lesson lists in every storage order: no number twice, up to n lessons
RECURSIVE LessonLists(_)
LessonLists(n) ==
  IF n = 0 THEN {<<>>}
  ELSE LessonLists(n - 1) \cup
       {Append(ls, Lesson(k)) :
          <<ls, k>> \in {lk \in {x \in LessonLists(n - 1) : Len(x) = n - 1} \X (1..MaxLessons) :
                           \A i \in 1..Len(lk[1]) : lk[1][i].lesson_number # lk[2]}}

\* a course dict of get_all_courses_metadata; has_link: the key is present
Course(title, has_link, link, lessons) ==
  [title |-> title, has_link |-> has_link, course_link |-> link, lessons |-> lessons]

\* courses that differ in title and in whether the link is usable
MatchCourses ==
  {Course(t, TRUE, l, <<Lesson(1)>>) : t \in CatalogTitles, l \in {Some(CourseUrl), None}}

\* courses that differ in what the link key holds and in the lesson order
FormatCourses ==
  {Course(<<"a", " ", "b">>, TRUE, l, ls) : l \in LinkValues, ls \in LessonLists(MaxLessons)}
  \cup {Course(<<"a", " ", "b">>, FALSE, None, ls) : ls \in LessonLists(MaxLessons)}

RECURSIVE Catalogs(_)
Catalogs(n) ==
  IF n = 0 THEN {<<>>}
  ELSE Catalogs(n - 1) \cup
       {Append(cs, c) : cs \in {x \in Catalogs(n - 1) : Len(x) = n - 1}, c \in MatchCourses}

BackendErrorMsg == "Database error"

\* what store.get_all_courses_metadata does: raises, or returns a catalog
Backends ==
  {[raises |-> TRUE, courses |-> <<>>]}
  \cup {[raises |-> FALSE, courses |-> cs] : cs \in Catalogs(MaxCourses)}
  \cup {[raises |-> FALSE, courses |-> <<c>>] : c \in FormatCourses}

\* ------------------------------------------------------- CourseOutlineTool
\* the first index of 1..n that satisfies the test, 0 when none does
FirstOf(S) == IF S = {} THEN 0 ELSE CHOOSE i \in S : \A j \in S : i <= j

\* _find_matching_course: three passes over the catalog, 0 for None
FindMatchingCourse_SubstringFirst(query_title, courses) ==
  LET q  == Lower(query_title)
      ix == 1..Len(courses)
      exact == {i \in ix : Lower(courses[i].title) = q}
      part  == {i \in ix : Contains(Lower(courses[i].title), q)}
      word  == {i \in ix : Words(q) \cap Words(Lower(courses[i].title)) # {}}
  IN  IF part # {} THEN FirstOf(part)
      ELSE IF exact # {} THEN FirstOf(exact)
      ELSE FirstOf(word)

FindMatchingCourse(query_title, courses) ==
  LET q  == Lower(query_title)
      ix == 1..Len(courses)
      exact == {i \in ix : Lower(courses[i].title) = q}
      part  == {i \in ix : Contains(Lower(courses[i].title), q)}
      word  == {i \in ix : Words(q) \cap Words(Lower(courses[i].title)) # {}}
  IN  IF exact # {} THEN FirstOf(exact)
      ELSE IF part # {} THEN FirstOf(part)
      ELSE FirstOf(word)

\* the test _format_course_outline makes twice on the link, lines 226-231
\* and 251-256: truthy, not blank, no placeholder, starts with "http"
LinkUsable_NonEmpty(link) == link # None /\ link[1] # <<>>

LinkUsable(link) ==
  /\ link # None /\ link[1] # <<>>
  /\ \E i \in 1..Len(link[1]) : link[1][i] # " "
  /\ link[1] \notin {NoLinkAvailable, <<"N", "o", "n", "e">>, <<"n", "u", "l", "l">>}
  /\ StartsWith(link[1], HttpPrefix)

\* sorted(lessons, key=lesson_number): a stable insertion sort
RECURSIVE SortedLessons(_)
SortedLessons_AsStored(lessons) == lessons

SortedLessons(lessons) ==
  IF lessons = <<>> THEN <<>>
  ELSE LET rest == SortedLessons(SubSeq(lessons, 1, Len(lessons) - 1))
           x    == lessons[Len(lessons)]
           k    == Cardinality({i \in 1..Len(rest) :
                                  rest[i].lesson_number <= x.lesson_number})
       IN  SubSeq(rest, 1, k) \o <<x>> \o SubSeq(rest, k + 1, Len(rest))

\* _format_course_outline: the text it returns and the sources it stores
FormatCourseOutline(course) ==
  LET link   == IF course.has_link THEN course.course_link ELSE Some(NoLinkAvailable)
      sorted == SortedLessons(course.lessons)
  IN  [returned |->
         [kind |-> "outline", title |-> course.title,
          link_line |-> IF LinkUsable(link) THEN link ELSE None,
          lessons |-> [i \in 1..Len(sorted) |->
                         [num |-> sorted[i].lesson_number, title |-> sorted[i].lesson_title]]],
       last_sources |->
         IF LinkUsable(link)
           THEN <<[text |-> [shape |-> "title - Course Link", title |-> course.title,
                             lesson |-> None],
                   link |-> link]>>
           ELSE <<>>,
       assigned |-> TRUE]

\* the three messages of execute that render no course
OutlineMessage(kind, course_title, courses) ==
  CASE kind = "no_courses" -> [kind |-> "no_courses"]
    [] kind = "no_match" ->
         [kind |-> "no_match", query |-> course_title,
          available |-> [i \in 1..Len(courses) |-> courses[i].title]]
    [] OTHER -> [kind |-> kind, msg |-> BackendErrorMsg]

\* CourseOutlineTool.execute: what it returns and what last_sources is after
OutlineOutcome_Propagates(course_title, backend, old) ==
  LET match == FindMatchingCourse(course_title, backend.courses)
      kept(kind) == [returned |-> OutlineMessage(kind, course_title, backend.courses),
                     last_sources |-> old, assigned |-> FALSE]
  IN  IF backend.raises THEN kept("raised")
      ELSE IF backend.courses = <<>> THEN kept("no_courses")
      ELSE IF match = 0 THEN kept("no_match")
      ELSE FormatCourseOutline(backend.courses[match])

OutlineOutcome(course_title, backend, old) ==
  LET match == FindMatchingCourse(course_title, backend.courses)
      kept(kind) == [returned |-> OutlineMessage(kind, course_title, backend.courses),
                     last_sources |-> old, assigned |-> FALSE]
  IN  IF backend.raises THEN kept("error")
      ELSE IF backend.courses = <<>> THEN kept("no_courses")
      ELSE IF match = 0 THEN kept("no_match")
      ELSE FormatCourseOutline(backend.courses[match])

\* CourseOutlineTool.execute(course_title), the store answering the
\* metadata request with backend
OutlineExecute(who, course_title, backend) ==
  /\ MayExecute(who)
  /\ LET out == OutlineOutcome(course_title, backend, outline_sources)
     IN  /\ outline_sources' = out.last_sources
         /\ last_call' = [op |-> "outline", by |-> who, course_title |-> course_title,
                          backend |-> backend, returned |-> out.returned,
                          matched |-> IF out.returned.kind = "outline"
                                        THEN FindMatchingCourse(course_title, backend.courses)
                                        ELSE 0]
         /\ Attribute(who, OutlineName, out.assigned, out.last_sources)
  /\ request' = NoCall
  /\ UNCHANGED <<search_sources, registry, tool_at, reg_log>>
  /\ UNCHANGED gvars

\* ------------------------------------------------------------------ claims
\* C12: after every CourseOutlineTool.execute call, last_sources is a
\* single entry referencing the course link when that call rendered a course
\* whose link passed the validity check, and is empty otherwise, also when
\* the call ended with the no-courses, no-match or backend-error message
\* after an earlier successful call.
C12_OutlineSourcesOfThisCall ==
  last_call.op = "outline" =>
    IF last_call.returned.kind = "outline" /\ last_call.returned.link_line # None
      THEN /\ Len(outline_sources) = 1
           /\ outline_sources[1].link = last_call.returned.link_line
      ELSE outline_sources = <<>>

\* what the code does instead: a call that renders no course leaves the
\* list of an earlier successful call in place
C12_StaleOutlineSources ==
  /\ last_call.op = "outline"
  /\ last_call.returned.kind \in {"no_courses", "no_match", "error"}
  /\ outline_sources # <<>>

\* ------------------------------------------------------------- ToolManager
\* the most register_tool calls made on one ToolManager
MaxRegistrations == 3

\* register_tool(tool): a tool whose definition has no name, or an empty
\* one, is refused with ValueError; otherwise a dict assignment under the
\* declared name, so a name already present keeps its place and gets the
\* new tool
RegisterTool_AcceptsNameless(tool) ==
  LET name == IF tool.name = None THEN "" ELSE tool.name[1]
  IN  /\ Len(reg_log) < MaxRegistrations
      /\ registry' = IF \E i \in 1..Len(registry) : registry[i] = name
                       THEN registry
                       ELSE Append(registry, name)
      /\ tool_at' = [n \in DOMAIN tool_at \cup {name} |-> IF n = name THEN tool.id ELSE tool_at[n]]
      /\ reg_log' = Append(reg_log, [tool |-> tool, raised |-> FALSE])
      /\ last_call' = [op |-> "register_tool", tool |-> tool, raised |-> FALSE]
      /\ request' = NoCall
      /\ UNCHANGED <<search_sources, outline_sources, qpc, writer, read_from, recorded,
                     overlapped>>
      /\ UNCHANGED gvars

RegisterTool_MovesToEnd(tool) ==
  LET raises == ~TruthyStr(tool.name)
      name == IF raises THEN "" ELSE tool.name[1]
  IN  /\ Len(reg_log) < MaxRegistrations
      /\ IF raises
           THEN UNCHANGED <<registry, tool_at>>
           ELSE /\ registry' = Append(SelectSeq(registry, LAMBDA n : n # name), name)
                /\ tool_at' = [n \in DOMAIN tool_at \cup {name} |->
                              IF n = name THEN tool.id ELSE tool_at[n]]
      /\ reg_log' = Append(reg_log, [tool |-> tool, raised |-> raises])
      /\ last_call' = [op |-> "register_tool", tool |-> tool, raised |-> raises]
      /\ request' = NoCall
      /\ UNCHANGED <<search_sources, outline_sources, qpc, writer, read_from, recorded,
                     overlapped>>
      /\ UNCHANGED gvars

RegisterTool(tool) ==
  LET raises == ~TruthyStr(tool.name)
      name == IF raises THEN "" ELSE tool.name[1]
  IN  /\ Len(reg_log) < MaxRegistrations
      /\ IF raises
           THEN UNCHANGED <<registry, tool_at>>
           ELSE /\ registry' = IF \E i \in 1..Len(registry) : registry[i] = name
                                 THEN registry
                                 ELSE Append(registry, name)
                /\ tool_at' = [n \in DOMAIN tool_at \cup {name} |->
                              IF n = name THEN tool.id ELSE tool_at[n]]
      /\ reg_log' = Append(reg_log, [tool |-> tool, raised |-> raises])
      /\ last_call' = [op |-> "register_tool", tool |-> tool, raised |-> raises]
      /\ request' = NoCall
      /\ UNCHANGED <<search_sources, outline_sources, qpc, writer, read_from, recorded,
                     overlapped>>
      /\ UNCHANGED gvars

\* get_tool_definitions: the definition of the tool held under each name,
\* in the dict's order
GetToolDefinitions ==
  /\ last_call' = [op |-> "get_tool_definitions",
                   returned |-> [i \in 1..Len(registry) |->
                                   [name |-> registry[i], of |-> tool_at[registry[i]]]]]
  /\ request' = NoCall
  /\ UNCHANGED <<search_sources, outline_sources, registry, tool_at, reg_log, qpc, writer,
                 read_from, recorded, overlapped>>
  /\ UNCHANGED gvars

\* execute_tool(tool_name) on tools that keep no state: the not-found
\* message, or what the tool held under the name returns
ExecuteTool(tool_name) ==
  /\ last_call' = [op |-> "execute_tool", tool_name |-> tool_name,
                   returned |-> IF \E i \in 1..Len(registry) : registry[i] = tool_name
                                  THEN [kind |-> "output", of |-> tool_at[tool_name]]
                                  ELSE [kind |-> "not_found", of |-> tool_name]]
  /\ request' = NoCall
  /\ UNCHANGED <<search_sources, outline_sources, registry, tool_at, reg_log, qpc, writer,
                 read_from, recorded, overlapped>>
  /\ UNCHANGED gvars

\* get_last_sources: every registered tool's list, in registry order
RECURSIVE GetLastSources_Reversed(_, _, _)
GetLastSources_Reversed(reg, ss, os) ==
  IF reg = <<>> THEN <<>>
  ELSE GetLastSources_Reversed(Tail(reg), ss, os)
       \o (IF Head(reg) = SearchName THEN ss ELSE os)

RECURSIVE GetLastSources(_, _, _)
GetLastSources(reg, ss, os) ==
  IF reg = <<>> THEN <<>>
  ELSE (IF Head(reg) = SearchName THEN ss ELSE os)
       \o GetLastSources(Tail(reg), ss, os)

\* the tools reset_sources clears: every registered one
ResetTargets_FirstOnly(reg) == IF reg = <<>> THEN {} ELSE {reg[1]}

ResetTargets_SearchOnly(reg) == {reg[i] : i \in 1..Len(reg)} \cap {SearchName}

ResetTargets(reg) == {reg[i] : i \in 1..Len(reg)}

\* a query of caller q begins (RAGSystem.query enters generate_response);
\* exclusive: queries on the registry are run one at a time
StartQuery(q, exclusive) ==
  /\ qpc[q] = "idle"
  /\ exclusive => \A o \in Callers : qpc[o] = "idle"
  /\ qpc' = [qpc EXCEPT ![q] = "running"]
  /\ recorded' = [recorded EXCEPT ![q] = FALSE]
  /\ read_from' = [read_from EXCEPT ![q] = {}]
  /\ overlapped' = [o \in Callers |->
                      IF o = q THEN \E p \in Callers \ {q} : qpc[p] # "idle"
                      ELSE overlapped[o] \/ qpc[o] # "idle"]
  /\ writer' = [t \in DOMAIN writer |-> IF writer[t] = q THEN "stale" ELSE writer[t]]
  /\ last_call' = [op |-> "query", by |-> q]
  /\ UNCHANGED <<search_sources, outline_sources, registry, tool_at, reg_log, request>>
  /\ UNCHANGED gvars

\* ToolManager.get_last_sources(), called directly or by a caller whose
\* query has finished its tool calls
GetLastSourcesCall(who) ==
  /\ MayExecute(who)
  /\ last_call' = [op |-> "get_last_sources", by |-> who, after |-> last_call.op,
                   returned |-> GetLastSources(registry, search_sources, outline_sources)]
  /\ IF who \in Callers
       THEN /\ qpc' = [qpc EXCEPT ![who] = "read"]
            /\ read_from' = [read_from EXCEPT ![who] =
                 {writer[registry[i]] : i \in {k \in 1..Len(registry) :
                    GetLastSources(<<registry[k]>>, search_sources, outline_sources) # <<>>}}]
       ELSE UNCHANGED <<qpc, read_from>>
  /\ UNCHANGED <<search_sources, outline_sources, registry, tool_at, reg_log, request, writer, recorded,
                 overlapped>>
  /\ UNCHANGED gvars

\* ToolManager.reset_sources(), called directly or by a caller that has
\* read the sources of its query
ResetSources(who) ==
  /\ who = "direct" \/ (who \in Callers /\ qpc[who] = "read")
  /\ search_sources' = IF SearchName \in ResetTargets(registry) THEN <<>> ELSE search_sources
  /\ outline_sources' = IF OutlineName \in ResetTargets(registry) THEN <<>> ELSE outline_sources
  /\ writer' = [t \in DOMAIN writer |->
                  IF t \in ResetTargets(registry) THEN "none" ELSE writer[t]]
  /\ qpc' = IF who \in Callers THEN [qpc EXCEPT ![who] = "idle"] ELSE qpc
  /\ last_call' = [op |-> "reset_sources", by |-> who]
  /\ UNCHANGED <<registry, tool_at, reg_log, request, read_from, recorded, overlapped>>
  /\ UNCHANGED gvars

\* ------------------------------------------------ small inputs, many calls
\* the search results offered when calls follow one another
FewResults ==
  {[error |-> IndexErrorMsg, hits |-> <<>>], [error |-> NoError, hits |-> <<>>]}
  \cup {[error |-> NoError, hits |-> hs] :
          hs \in {<<h>> : h \in {x \in Hits : x.course_title = <<"A">>}} \cup
                 {<<h1, h2>> : h1 \in {x \in Hits : x.lesson_number = None},
                               h2 \in {x \in Hits : x.lesson_number # None
                                                      /\ x.course_title = <<"B">>}}}

\* the metadata answers offered when calls follow one another
FewBackends ==
  {[raises |-> TRUE, courses |-> <<>>], [raises |-> FALSE, courses |-> <<>>]}
  \cup {[raises |-> FALSE, courses |-> <<c>>] :
          c \in {m \in MatchCourses : m.title = <<"a", " ", "b">>}}

\* ------------------------------------ specification: direct calls in a row
NextTools ==
  \/ \E tool \in {[id |-> "search", name |-> Some(SearchName)],
                   [id |-> "outline", name |-> Some(OutlineName)]} : RegisterTool(tool)
  \/ \E res \in FewResults : SearchExecute("direct", None, None, res)
  \/ \E q \in {<<"a", " ", "b">>, <<"z">>}, b \in FewBackends : OutlineExecute("direct", q, b)
  \/ GetLastSourcesCall("direct")
  \/ ResetSources("direct")

\* a ToolManager with nothing registered yet, and the two tools
InitTools ==
  /\ GeneratorInit
  /\ ToolsInit(<<>>, NoCall)

SpecTools == InitTools /\ [][NextTools]_vars

\* ------------------------- specification: one call, inputs fixed beforehand
Requests ==
  {[op |-> "search", course_name |-> cn, lesson_number |-> ln, results |-> res] :
     cn \in CourseNameArgs, ln \in LessonNumberArgs, res \in SearchResultsValues}
  \cup
  {[op |-> "outline", course_title |-> q, backend |-> b] : q \in QueryTitles, b \in Backends}

InitOnce ==
  /\ GeneratorInit
  /\ \E req \in Requests : ToolsInit(<<SearchName, OutlineName>>, req)

NextOnce ==
  \/ /\ request.op = "search"
     /\ SearchExecute("direct", request.course_name, request.lesson_number, request.results)
  \/ /\ request.op = "outline"
     /\ OutlineExecute("direct", request.course_title, request.backend)

SpecOnce == InitOnce /\ [][NextOnce]_vars

\* -------------------------------------- specifications: queries by callers
\* what a running query does, and how it ends: read the sources, then reset
QuerySteps(q) ==
  \/ \E res \in FewResults : SearchExecute(q, None, None, res)
  \/ \E b \in FewBackends : OutlineExecute(q, <<"a", " ", "b">>, b)
  \/ GetLastSourcesCall(q)
  \/ ResetSources(q)

\* queries on the shared registry run one at a time
NextSequential == \E q \in Callers : StartQuery(q, TRUE) \/ QuerySteps(q)

SpecSequential == Init /\ [][NextSequential]_vars

\* queries on the shared registry start whenever they like
NextConcurrent == \E q \in Callers : StartQuery(q, FALSE) \/ QuerySteps(q)

SpecConcurrent == Init /\ [][NextConcurrent]_vars

\* ------------------------------- specification: registrations and dispatch
\* tools that keep no state: two declare the same name, one declares no
\* name and one an empty name
ToolObjects ==
  {[id |-> "t1", name |-> Some(SearchName)],
   [id |-> "t2", name |-> Some(OutlineName)],
   [id |-> "t3", name |-> Some(SearchName)],
   [id |-> "t4", name |-> None],
   [id |-> "t5", name |-> Some("")]}

NextRegistry ==
  \/ \E tool \in ToolObjects : RegisterTool(tool)
  \/ GetToolDefinitions
  \/ \E tool_name \in {SearchName, OutlineName, "unknown_tool"} : ExecuteTool(tool_name)

SpecRegistry == InitTools /\ [][NextRegistry]_vars

\* ------------------- specification: a query whose rounds run the search tool
\* what the store answers during a query: no hit, one hit, two hits
QueryResults ==
  {r \in FewResults :
     /\ r.error = NoError
     /\ \A i \in DOMAIN r.hits :
          /\ r.hits[i].course_title = (IF i = 1 THEN <<"A">> ELSE <<"B">>)
          /\ ~r.hits[i].lookup.raises
          /\ r.hits[i].lesson_number # None => r.hits[i].lookup.value # None
     /\ Len(r.hits) = 1 => r.hits[1].lesson_number = None}

\* the responses of a round: a direct answer, or stop reason tool_use with
\* one or two requests for the search tool, or with no request
QueryResponses ==
  {<<"end_turn", <<"text">>>>}
  \cup {<<"tool_use", sh>> : sh \in {<<SearchName>>, <<SearchName, SearchName>>, <<"text">>}}

\* a search requested in a round runs and returns: ai_generator.py lines
\* 177-190 with the execute of search_tools.py, then 195-207 after the last
QueryToolReturns(results) ==
  /\ pc = "round_tools"
  /\ content[block_idx].name = SearchName
  /\ LET b   == content[block_idx]
         out == SearchOutcome(None, None, results, search_sources)
         rs  == Append(tool_results, ToolResult(b, out.returned))
         nxt == NextToolUse(content, block_idx + 1)
     IN  /\ exec_log' = Append(exec_log,
               [phase |-> "round", round |-> round_number, name |-> b.name, id |-> b.id,
                after_call |-> Len(api_log), ran_tool |-> TRUE, raised |-> FALSE,
                results |-> results])
         /\ search_sources' = out.last_sources
         /\ last_call' = [op |-> "search", by |-> "direct", course_name |-> None,
                          lesson_number |-> None, results |-> results,
                          returned |-> out.returned, lookups |-> out.lookups]
         /\ Attribute("direct", SearchName, out.assigned, out.last_sources)
         /\ IF nxt = 0
              THEN EndRound(messages, rs)
              ELSE /\ block_idx' = nxt
                   /\ tool_results' = rs
                   /\ UNCHANGED <<pc, round_number, messages, content, result>>
  /\ UNCHANGED <<conversation_history, tools, tool_manager, max_rounds, api_log>>
  /\ UNCHANGED <<outline_sources, registry, tool_at, reg_log, request>>

\* one query in the multi-round loop, then the caller reads the sources and
\* resets them
NextQuery ==
  \/ \E mr \in 2..MaxRounds : GenerateResponse(<<>>, TRUE, TRUE, mr)
  \/ RoundCallRaises
  \/ \E r \in QueryResponses : RoundCallReturns(r[1], r[2])
  \/ \E res \in QueryResults : QueryToolReturns(res)
  \/ RoundToolRaises
  \/ FinalCallRaises
  \/ FinalCallReturns("end_turn", <<"text">>)
  \/ /\ pc = "done"
     /\ last_call.op # "get_last_sources"
     /\ GetLastSourcesCall("direct")
  \/ /\ pc = "done"
     /\ last_call.op = "get_last_sources"
     /\ ResetSources("direct")

SpecQuery == Init /\ [][NextQuery]_vars

\* ------------------------------------------------------------------ claims
\* C13: ToolManager.get_last_sources returns the concatenation, in
\* registration order, of every registered tool's current last_sources (a
\* tool without sources contributes nothing), and called right after
\* reset_sources it returns the empty list.
C13_Concatenation ==
  last_call.op = "get_last_sources" =>
    LET held(name) == IF name = SearchName THEN search_sources ELSE outline_sources
    IN  /\ last_call.returned =
             IF Len(registry) = 0 THEN <<>>
             ELSE IF Len(registry) = 1 THEN held(registry[1])
             ELSE held(registry[1]) \o held(registry[2])
        /\ (last_call.after = "reset_sources" => last_call.returned = <<>>)

\* the outline tool was registered first and both tools hold sources
C13_Witness ==
  /\ last_call.op = "get_last_sources"
  /\ registry = <<OutlineName, SearchName>>
  /\ search_sources # <<>>
  /\ outline_sources # <<>>
  /\ last_call.returned = outline_sources \o search_sources

\* C14: when queries run one after another on the same registry and each
\* ends with get_last_sources followed by reset_sources, the sources a query
\* reads were all recorded by tool executions of that query, and a query in
\* which no execution recorded any reads the empty list.
C14_OwnSourcesOnly ==
  \A q \in Callers :
    (qpc[q] = "read" /\ last_call.op = "get_last_sources" /\ last_call.by = q) =>
      /\ read_from[q] \subseteq {q}
      /\ (~recorded[q] => last_call.returned = <<>>)

\* a query reads its own sources after another caller's query had recorded
\* sources too
C14_Witness ==
  \E q \in Callers :
    /\ qpc[q] = "read"
    /\ read_from[q] = {q}
    /\ \E o \in Callers \ {q} : recorded[o]

\* C15: the last_sources lists are shared without locking, so with queries
\* interleaving on one registry a query can read sources recorded by the
\* other query; a query reads foreign sources only if another query was
\* running during it.
C15_LeakNeedsOverlap ==
  \A q \in Callers :
    (qpc[q] = "read" /\ ~(read_from[q] \subseteq {q})) => overlapped[q]

\* a query has read sources that the other caller's tool call recorded
C15_Witness ==
  \E q \in Callers :
    /\ qpc[q] = "read"
    /\ \E o \in Callers \ {q} : o \in read_from[q]

C17_NoMatchMessage ==
  (/\ last_call.op = "outline"
   /\ ~last_call.backend.raises
   /\ last_call.backend.courses # <<>>
   /\ \A i \in 1..Len(last_call.backend.courses) :
        ~Contains(Lower(last_call.backend.courses[i].title), Lower(last_call.course_title)))
  => /\ last_call.returned.kind = "no_match"
     /\ last_call.returned.available =
          [i \in 1..Len(last_call.backend.courses) |-> last_call.backend.courses[i].title]

\* what the code does instead: the shared word "course" makes the third
\* tier hit, and the outline of "Different Course" is returned
C17_OutlineOfDifferentCourse ==
  /\ last_call.op = "outline"
  /\ last_call.course_title = NonexistentCourse
  /\ Len(last_call.backend.courses) = 1
  /\ last_call.backend.courses[1].title = DifferentCourse
  /\ last_call.returned.kind = "outline"
  /\ last_call.returned.title = DifferentCourse

\* C18: CourseOutlineTool.execute never raises: an empty catalog, no
\* matching course and an exception of the metadata backend each give a
\* returned message, and the three messages differ from one another.
C18_ThreeMessages ==
  last_call.op = "outline" =>
    LET cs == last_call.backend.courses
        q  == Lower(last_call.course_title)
        r  == last_call.returned
    IN  /\ r.kind \in {"outline", "no_courses", "no_match", "error"}
        /\ last_call.backend.raises => (r.kind = "error" /\ r.msg = BackendErrorMsg)
        /\ (~last_call.backend.raises /\ cs = <<>>) => r.kind = "no_courses"
        /\ (/\ ~last_call.backend.raises
            /\ cs # <<>>
            /\ \A i \in 1..Len(cs) :
                 /\ ~Contains(Lower(cs[i].title), q)
                 /\ Words(q) \cap Words(Lower(cs[i].title)) = {})
           => /\ r.kind = "no_match"
              /\ r.query = last_call.course_title
              /\ r.available = [i \in 1..Len(cs) |-> cs[i].title]

\* the metadata backend raised and execute returned the error message
C18_Witness ==
  /\ last_call.op = "outline"
  /\ last_call.backend.raises
  /\ last_call.returned.kind = "error"

\* C19: a stored course link is shown in the outline and recorded as a
\* source only if it starts with "http" and is no placeholder ("No link
\* available", "None", "null", empty or blank); for every other stored value
\* the outline shows the fallback line and the value is neither in the text
\* nor in last_sources.
C19_LinkShownOnlyIfUsable ==
  (last_call.op = "outline" /\ last_call.returned.kind = "outline") =>
    LET c      == last_call.backend.courses[last_call.matched]
        stored == c.course_link
        usable == /\ c.has_link
                  /\ stored # None
                  /\ StartsWith(stored[1], HttpPrefix)
                  /\ stored[1] \notin {NoLinkAvailable, <<"N", "o", "n", "e">>,
                                       <<"n", "u", "l", "l">>, <<>>, <<" ">>}
    IN  IF usable
          THEN /\ last_call.returned.link_line \in {None, stored}
               /\ \A i \in 1..Len(outline_sources) : outline_sources[i].link = stored
          ELSE /\ last_call.returned.link_line = None
               /\ outline_sources = <<>>

\* a stored value that is no placeholder and no http link gets the fallback
C19_Witness ==
  /\ last_call.op = "outline"
  /\ last_call.returned.kind = "outline"
  /\ last_call.backend.courses[last_call.matched].course_link
       = Some(<<"w", "w", "w", ".", "c">>)
  /\ last_call.returned.link_line = None
  /\ outline_sources = <<>>

\* C20: the rendered outline lists the course's lessons in ascending
\* lesson-number order for every storage order of the lesson list.
C20_LessonsAscending ==
  (last_call.op = "outline" /\ last_call.returned.kind = "outline") =>
    LET stored == last_call.backend.courses[last_call.matched].lessons
        shown  == last_call.returned.lessons
    IN  /\ Len(shown) = Len(stored)
        /\ {shown[i].num : i \in 1..Len(shown)}
             = {stored[i].lesson_number : i \in 1..Len(stored)}
        /\ \A i \in 1..Len(shown) : \A j \in i..Len(shown) : shown[i].num <= shown[j].num

\* lessons stored in descending order come out ascending
C20_Witness ==
  /\ last_call.op = "outline"
  /\ last_call.returned.kind = "outline"
  /\ Len(last_call.returned.lessons) = MaxLessons
  /\ \A i \in 1..(MaxLessons - 1) :
       /\ last_call.backend.courses[last_call.matched].lessons[i].lesson_number
            > last_call.backend.courses[last_call.matched].lessons[i + 1].lesson_number
       /\ last_call.returned.lessons[i].num < last_call.returned.lessons[i + 1].num

\* C21: when the index reports an error, CourseSearchTool.execute returns
\* exactly that error string, although the result set is empty as well; it
\* does not return the "No relevant content found" message and makes no
\* lesson-link lookup.
C21_ErrorReturnedVerbatim ==
  (last_call.op = "search" /\ last_call.results.error # "") =>
    /\ last_call.returned.kind = "error"
    /\ last_call.returned.msg = last_call.results.error
    /\ last_call.lookups = <<>>

\* the index reported an error for a search with both filters passed
C21_Witness ==
  /\ last_call.op = "search"
  /\ last_call.results = [error |-> IndexErrorMsg, hits |-> <<>>]
  /\ last_call.course_name = Some("A")
  /\ last_call.lesson_number = Some(1)
  /\ last_call.returned = [kind |-> "error", msg |-> IndexErrorMsg]

\* C22: when the index returns zero hits and no error, execute returns "No
\* relevant content found" followed by " in course '<name>'" exactly when a
\* course_name filter was passed and by " in lesson <n>" exactly when a
\* lesson_number filter was passed.
C22_FiltersNamed ==
  (last_call.op = "search" /\ last_call.results.error = ""
     /\ last_call.results.hits = <<>>) =>
    /\ last_call.returned.kind = "no_content"
    /\ last_call.returned.course = last_call.course_name
    /\ last_call.returned.lesson = last_call.lesson_number

\* what the code does instead: the filter lesson_number = 0 was passed and
\* the message does not name it
C22_LessonZeroOmitted ==
  /\ last_call.op = "search"
  /\ last_call.lesson_number = Some(0)
  /\ last_call.returned.kind = "no_content"
  /\ last_call.returned.lesson = None

\* C23: for a non-empty result set, last_sources has exactly one entry per
\* hit, in hit order; an entry's text is the hit's course title followed by
\* " - Lesson N" exactly when the hit has a lesson number, and a hit without
\* a lesson number gets a null link without any link lookup.
C23_OneSourcePerHit ==
  (last_call.op = "search" /\ last_call.results.error = ""
     /\ last_call.results.hits # <<>>) =>
    LET hits == last_call.results.hits
    IN  /\ Len(search_sources) = Len(hits)
        /\ \A i \in 1..Len(hits) :
             /\ search_sources[i].text.title = hits[i].course_title
             /\ search_sources[i].text.lesson = hits[i].lesson_number
             /\ search_sources[i].text.shape =
                  IF hits[i].lesson_number = None THEN "title" ELSE "title - Lesson"
             /\ hits[i].lesson_number = None =>
                  /\ search_sources[i].link = None
                  /\ \A k \in 1..Len(last_call.lookups) : last_call.lookups[k] # i

\* a hit with a lesson and a hit without one, in this order
C23_Witness ==
  /\ last_call.op = "search"
  /\ Len(search_sources) = 2
  /\ search_sources[1].text.shape = "title - Lesson"
  /\ search_sources[1].link = Some(LessonUrl)
  /\ search_sources[2].text.shape = "title"
  /\ search_sources[2].link = None
  /\ last_call.lookups = <<1>>

\* C24: if the lesson-link lookup raises for a hit, execute still returns
\* the formatted results, that hit's source has a null link, and the sources
\* recorded for the other hits are what they are without the failure.
C24_LookupFailureContained ==
  (last_call.op = "search" /\ last_call.results.error = ""
     /\ last_call.results.hits # <<>>) =>
    LET hits == last_call.results.hits
    IN  /\ last_call.returned.kind = "results"
        /\ Len(last_call.returned.blocks) = Len(hits)
        /\ Len(search_sources) = Len(hits)
        /\ \A i \in 1..Len(hits) :
             search_sources[i].link =
               IF hits[i].lesson_number # None /\ ~hits[i].lookup.raises
                 THEN hits[i].lookup.value
                 ELSE None

\* the lookup raised for the first hit and gave a link for the second
C24_Witness ==
  /\ last_call.op = "search"
  /\ Len(last_call.results.hits) = 2
  /\ last_call.results.hits[1].lookup.raises
  /\ last_call.returned.kind = "results"
  /\ search_sources[1].link = None
  /\ search_sources[2].link = Some(LessonUrl)

\* C25: register_tool stores the tool under the name its own definition
\* declares, and execute_tool with a name dispatches to the tool registered
\* last under it; a tool whose definition has no name (or an empty one) is
\* refused with an error and the registered tools stay as they were.
C25_StoredUnderDeclaredName ==
  [][/\ (last_call'.op = "register_tool" /\ reg_log' # reg_log) =>
          LET tool == last_call'.tool
          IN  IF tool.name # None /\ tool.name[1] # ""
                THEN /\ ~last_call'.raised
                     /\ \E i \in 1..Len(registry') : registry'[i] = tool.name[1]
                     /\ tool_at'[tool.name[1]] = tool.id
                     /\ \A n \in DOMAIN tool_at \ {tool.name[1]} : tool_at'[n] = tool_at[n]
                ELSE /\ last_call'.raised
                     /\ registry' = registry
                     /\ tool_at' = tool_at
     /\ last_call'.op = "execute_tool" =>
          LET under == {k \in 1..Len(reg_log') :
                          /\ ~reg_log'[k].raised
                          /\ reg_log'[k].tool.name = <<last_call'.tool_name>>}
          IN  IF under = {}
                THEN last_call'.returned.kind = "not_found"
                ELSE /\ last_call'.returned.kind = "output"
                     /\ \E k \in under :
                          /\ \A o \in under : o <= k
                          /\ last_call'.returned.of = reg_log'[k].tool.id
    ]_vars

\* a nameless tool was refused between two registrations under one name,
\* and execute_tool reached the tool registered last
C25_Witness ==
  /\ Len(reg_log) = 3
  /\ reg_log[1].tool.id = "t1"
  /\ reg_log[2].tool.id = "t4" /\ reg_log[2].raised
  /\ reg_log[3].tool.id = "t3"
  /\ registry = <<SearchName>>
  /\ last_call.op = "execute_tool"
  /\ last_call.returned = [kind |-> "output", of |-> "t3"]

\* C26: after any sequence of registrations, also one that registers a
\* second tool under a name already registered, get_tool_definitions returns
\* exactly one definition per registered name, in the order in which the
\* names were first registered, each being that of the tool registered last
\* under the name.
C26_OneDefinitionPerName ==
  last_call.op = "get_tool_definitions" =>
    LET defs == last_call.returned
        ok == {k \in 1..Len(reg_log) : ~reg_log[k].raised}
        NameAt(k) == reg_log[k].tool.name[1]
        FirstOf_(n) == CHOOSE k \in ok : NameAt(k) = n /\ \A o \in ok : NameAt(o) = n => k <= o
        LastOf_(n) == CHOOSE k \in ok : NameAt(k) = n /\ \A o \in ok : NameAt(o) = n => o <= k
    IN  /\ {defs[i].name : i \in 1..Len(defs)} = {NameAt(k) : k \in ok}
        /\ \A i, j \in 1..Len(defs) : i < j =>
             /\ defs[i].name # defs[j].name
             /\ FirstOf_(defs[i].name) < FirstOf_(defs[j].name)
        /\ \A i \in 1..Len(defs) : defs[i].of = reg_log[LastOf_(defs[i].name)].tool.id

\* the search name was registered first, then another name, then a second
\* tool under the search name: two definitions, the search name still first
C26_Witness ==
  /\ last_call.op = "get_tool_definitions"
  /\ Len(reg_log) = 3
  /\ reg_log[1].tool.id = "t1"
  /\ reg_log[2].tool.id = "t2"
  /\ reg_log[3].tool.id = "t3"
  /\ last_call.returned = <<[name |-> SearchName, of |-> "t3"],
                            [name |-> OutlineName, of |-> "t2"]>>

\* C27: with tool schemas, a tool manager and max_rounds = 1, a first
\* response with stop reason tool_use has each requested tool call executed
\* at most once, in request order, and no more than one further model call
\* is made; a query that returns has executed each of them exactly once and
\* has made exactly two model calls, the second without tool schemas, and
\* returns the second response's text.
C27_BudgetOneToolUse ==
  (tools /\ tool_manager /\ max_rounds = 1 /\ Len(api_log) >= 1
     /\ ~api_log[1].raised /\ api_log[1].stop_reason = "tool_use") =>
    /\ api_log[1].tools
    /\ Len(api_log) <= 2
    /\ Len(exec_log) <= Len(Requested(1))
    /\ \A k \in DOMAIN exec_log :
         /\ exec_log[k].id = Requested(1)[k].id
         /\ exec_log[k].after_call = 1
    /\ (Len(api_log) = 2) =>
         /\ ~api_log[2].tools
         /\ Len(exec_log) = Len(Requested(1))
    /\ (pc = "done" /\ result.kind = "text") =>
         /\ Len(api_log) = 2
         /\ result.text = api_log[2].content[1].text

\* budget one: two tools were requested and run, then the second call's
\* text was returned
C27_Witness ==
  /\ pc = "done"
  /\ tools /\ tool_manager /\ max_rounds = 1
  /\ api_log[1].stop_reason = "tool_use"
  /\ Len(Requested(1)) = 2
  /\ Len(exec_log) = 2
  /\ Len(api_log) = 2
  /\ result.kind = "text"

\* C28: with tool schemas and no tool manager, generate_response makes
\* exactly one model call, with the tool schemas attached, and executes no
\* tool, also when that response's stop reason is tool_use.
C28_NoManagerNoExecution ==
  (pc # "idle" /\ tools /\ ~tool_manager) =>
    /\ exec_log = <<>>
    /\ Len(api_log) <= 1
    /\ \A n \in DOMAIN api_log : api_log[n].tools /\ api_log[n].phase = "single"
    /\ pc = "done" => Len(api_log) = 1

\* no manager: the only response asked for a tool and the call is over
C28_Witness ==
  /\ pc = "done"
  /\ tools /\ ~tool_manager
  /\ Len(api_log) = 1
  /\ api_log[1].stop_reason = "tool_use"
  /\ Requested(1) # <<>>
  /\ exec_log = <<>>

\* C29: without a tool manager, with or without tool schemas, an exception
\* raised by the model call leaves generate_response as that exception, with
\* its original message, and is not returned as an answer string.
C29_ApiErrorPropagates ==
  (~tool_manager /\ \E n \in DOMAIN api_log : api_log[n].raised) =>
    /\ pc = "done"
    /\ Len(api_log) = 1
    /\ result = [kind |-> "raised", msg |-> ApiErrorMsg]

\* the model call raised in a call made with tool schemas and no manager
C29_Witness ==
  /\ pc = "done"
  /\ tools /\ ~tool_manager
  /\ Len(api_log) = 1
  /\ api_log[1].raised
  /\ result.kind = "raised"

C31_HistoryInSystemOnly ==
  \A n \in DOMAIN api_log :
    /\ api_log[n].system.prompt = "SYSTEM_PROMPT"
    /\ api_log[n].system.previous =
         IF conversation_history \in {<<>>, <<"">>} THEN <<>> ELSE conversation_history
    /\ api_log[n].messages[1] = QueryTurn
    /\ \A i \in 2..Len(api_log[n].messages) :
         LET turn == api_log[n].messages[i]
         IN  \/ /\ turn.role = "assistant"
                /\ \E k \in 1..(n - 1) : turn.content = api_log[k].content
             \/ /\ turn.role = "user"
                /\ \A j \in DOMAIN turn.content : turn.content[j].type = "tool_result"

\* an empty-string history was passed and a second request was made after
\* a tool round
C31_Witness ==
  /\ conversation_history = <<"">>
  /\ Len(api_log) = 2
  /\ Len(api_log[2].messages) = 3
  /\ api_log[2].system.previous = <<>>

\* C32 (as stated): every round whose response has stop reason tool_use
\* appends exactly two turns before the next model call, the response's
\* turn and one results turn, also when the round produced no tool result.
C32_AsStated ==
  \A n \in DOMAIN api_log :
    (n + 1 \in DOMAIN api_log /\ api_log[n].phase = "round") =>
      Len(api_log[n + 1].messages) = Len(api_log[n].messages) + 2

\* C32 (amended): a round whose response has stop reason tool_use and whose
\* tool calls all returned appends the response's turn and, when it
\* produced at least one tool result, one results turn holding one result
\* per requested call; a round that produced no tool result appends the
\* response's turn only.
C32_ResultsTurnOnlyIfResults ==
  \A n \in DOMAIN api_log :
    (n + 1 \in DOMAIN api_log /\ api_log[n].phase = "round") =>
      LET before == api_log[n].messages
          after  == api_log[n + 1].messages
          k      == Len(before)
      IN  /\ api_log[n].stop_reason = "tool_use"
          /\ SubSeq(after, 1, k) = before
          /\ after[k + 1] = [role |-> "assistant", content |-> api_log[n].content]
          /\ IF Requested(n) = <<>>
               THEN Len(after) = k + 1
               ELSE /\ Len(after) = k + 2
                    /\ after[k + 2].role = "user"
                    /\ Len(after[k + 2].content) = Len(Requested(n))

\* a round whose tool_use response held no tool_use block was followed by a
\* model call: one turn was appended, and it is the last one sent
C32_Witness ==
  /\ Len(api_log) = 2
  /\ api_log[1].phase = "round"
  /\ Malformed(1)
  /\ Len(api_log[2].messages) = 2
  /\ api_log[2].messages[2].role = "assistant"

\* C33: the conversation is only appended to: the turns sent in a model
\* call begin with the turns sent in the previous call of the query,
\* unchanged and in the same order, and the first turn sent is always the
\* user turn holding the query.
C33_AppendOnly ==
  \A n \in DOMAIN api_log :
    /\ api_log[n].messages # <<>>
    /\ api_log[n].messages[1] = QueryTurn
    /\ n > 1 =>
         /\ Len(api_log[n].messages) > Len(api_log[n - 1].messages)
         /\ SubSeq(api_log[n].messages, 1, Len(api_log[n - 1].messages))
              = api_log[n - 1].messages

\* three model calls were made, each one sending two turns more
C33_Witness ==
  /\ Len(api_log) = 3
  /\ Len(api_log[1].messages) = 1
  /\ Len(api_log[2].messages) = 3
  /\ Len(api_log[3].messages) = 5

\* C34 (as stated): in every model call after the first the turns sent
\* alternate between the user and the assistant role, starting with the
\* user query, and the last turn sent is a user turn holding tool results,
\* also after tool_use responses without tool_use blocks.
C34_AsStated ==
  \A n \in DOMAIN api_log :
    n > 1 =>
      LET msgs == api_log[n].messages
      IN  /\ \A i \in DOMAIN msgs :
                 msgs[i].role = (IF i % 2 = 1 THEN "user" ELSE "assistant")
          /\ msgs[Len(msgs)].role = "user"

\* C34 (amended): in a model call after the first, when every earlier
\* response of the query held at least one tool_use block, the turns sent
\* alternate between the user and the assistant role, starting with the
\* user query, and the last turn sent is a user turn holding tool results;
\* right after a tool_use response without tool_use blocks the last turn
\* sent is that response's assistant turn.
C34_AlternationUnlessNoBlocks ==
  \A n \in DOMAIN api_log :
    n > 1 =>
      LET msgs == api_log[n].messages
          last == msgs[Len(msgs)]
      IN  /\ (\A k \in 1..(n - 1) : ~Malformed(k)) =>
               /\ \A i \in DOMAIN msgs :
                    msgs[i].role = (IF i % 2 = 1 THEN "user" ELSE "assistant")
               /\ Len(msgs) = 2 * n - 1
               /\ last.role = "user"
               /\ \A j \in DOMAIN last.content : last.content[j].type = "tool_result"
          /\ Malformed(n - 1) =>
               last = [role |-> "assistant", content |-> api_log[n - 1].content]

\* two tool_use responses without tool_use blocks: the third call sends the
\* query turn followed by two assistant turns
C34_Witness ==
  /\ Len(api_log) = 3
  /\ Malformed(1) /\ Malformed(2)
  /\ Len(api_log[3].messages) = 3
  /\ api_log[3].messages[2].role = "assistant"
  /\ api_log[3].messages[3].role = "assistant"

C36_TerminatesWithOneOutcome ==
  /\ [](pc = "done" =>
          LET last == api_log[Len(api_log)]
              loop == tools /\ tool_manager /\ max_rounds > 1
          IN  /\ result.kind \in {"text", "tool_failed", "round_error", "raised"}
              /\ result.kind = "text" =>
                   /\ ~last.raised
                   /\ result.text = last.content[1].text
                   /\ \/ last.phase \in {"round", "single"} /\ last.stop_reason # "tool_use"
                      \/ last.phase = "single" /\ ~tool_manager
                      \/ last.phase \in {"final", "followup"} /\ ~last.tools
              /\ result.kind \in {"tool_failed", "round_error"} => loop
              /\ result.kind = "raised" => ~loop)
  /\ (pc # "idle") ~> (pc = "done")

\* a call ended with a forced-final answer after the whole budget was used
C36_Witness ==
  /\ pc = "done"
  /\ result.kind = "text"
  /\ max_rounds = 2
  /\ Len(api_log) = 3
  /\ api_log[3].phase = "final"

C38_NoRollback ==
  (pc = "done" /\ result.kind = "tool_failed") =>
    LET j == Len(exec_log)
        earlier == {k \in 1..(j - 1) : exec_log[k].results.hits # <<>>}
        kept == IF earlier = {} THEN <<>>
                ELSE LET k == CHOOSE k \in earlier : \A o \in earlier : o <= k
                     IN  [i \in 1..Len(exec_log[k].results.hits) |->
                            HitSource(exec_log[k].results.hits[i])]
    IN  /\ exec_log[j].raised
        /\ \A k \in 1..(j - 1) : ~exec_log[k].raised
        /\ last_call.op \in {"none", "search"} => search_sources = kept
        /\ (last_call.op = "get_last_sources" /\ last_call.after # "reset_sources") =>
             /\ search_sources = kept
             /\ last_call.returned = kept
        /\ last_call.op = "reset_sources" => search_sources = <<>>

\* the first search of round 2 found hits and the second one raised; the
\* sources of the first are read after the tool-failure message
C38_Witness ==
  /\ pc = "done"
  /\ result.kind = "tool_failed"
  /\ Len(exec_log) = 3
  /\ exec_log[2].round = 2
  /\ exec_log[2].results.hits # <<>>
  /\ exec_log[3].round = 2
  /\ exec_log[3].raised
  /\ last_call.op = "get_last_sources"
  /\ last_call.returned # <<>>
  /\ Len(last_call.returned) = Len(exec_log[2].results.hits)

\* C39: generate_response never returns the fallback string "Maximum rounds
\* completed without final response.": whenever the loop is entered, its
\* last round returns, so the loop never falls through.
C39_FallbackUnreachable ==
  /\ result # MaxRoundsFallback
  /\ (pc = "done" /\ tools /\ tool_manager /\ max_rounds > 1) =>
       /\ result.kind \in {"text", "tool_failed", "round_error"}
       /\ round_number <= max_rounds
       /\ \A n \in DOMAIN api_log : api_log[n].round <= max_rounds

\* the whole budget was used with tool rounds and the call returned the
\* text of the final call
C39_Witness ==
  /\ pc = "done"
  /\ tools /\ tool_manager
  /\ max_rounds > 1
  /\ round_number = max_rounds
  /\ Len(api_log) = max_rounds + 1
  /\ \A n \in 1..max_rounds : api_log[n].stop_reason = "tool_use"
  /\ result.kind = "text"

====
